---- MODULE Spec2Model ----
(***************************************************************************)
(* foldersync: the backup task execution engine of src/backup.py.          *)
(*                                                                         *)
(*   build_robocopy_command  (task, options) -> argument list              *)
(*   run_backup_task         pre-checks, spawn, exit status classification *)
(*   run_all_backups         loop over the task list, aggregate exit code  *)
(*                                                                         *)
(* Python strings are sequences of one-character strings, so that          *)
(* str.startswith and the `in` test on a string are computed, not assumed. *)
(* Python dicts are functions whose DOMAIN is the set of present keys, so  *)
(* that dict.get(key, default) is computed from the presence of the key.   *)
(* Task descriptors are well formed in the sense of the data model:        *)
(* source and destination are path strings, exclude is a list of strings.  *)
(***************************************************************************)
EXTENDS Integers, Sequences, FiniteSets, TLC

VARIABLES
    config,            \* the configuration mapping handed to run_all_backups
    fs,                \* the set of paths that exist on the filesystem
    pc,                \* position of the (single) thread of control
    tasks,             \* run_all_backups: local `tasks`
    robocopy_options,  \* run_all_backups: local `robocopy_options`
    i,                 \* run_all_backups: number of tasks taken from the list
    failed_tasks,      \* run_all_backups: local `failed_tasks`
    task,              \* run_backup_task: parameter `task`
    cmd,               \* run_backup_task: local `cmd`
    return_code,       \* run_backup_task: local `return_code`
    success,           \* value returned by the last run_backup_task call
    exit_code,         \* value returned by run_all_backups
    exc,               \* exception raised in the current call (None if none)
    running,           \* command lines of the external processes in flight
    calls,             \* history: task indices handed to run_backup_task
    outcomes,          \* history: values returned by run_backup_task
    spawns,            \* history: task indices for which a process was started
    source_seen,       \* current call: result of os.path.exists(source)
    dest_seen,         \* current call: result of os.path.exists(destination)
    mkdir_result       \* current call: what os.makedirs(destination) did

vars == <<config, fs, pc, tasks, robocopy_options, i, failed_tasks, task, cmd,
          return_code, success, exit_code, exc, running, calls, outcomes,
          spawns, source_seen, dest_seen, mkdir_result>>

None == "None"

(* a Python name that is not bound yet, and one bound to v *)
Unset == <<>>
Val(v) == <<v>>

----------------------------------------------------------------------------
(* Bounds of the model *)

MaxTasks == 2       \* longest task list
MaxStatus == 9      \* largest exit status of the external tool
MaxExclude == 2     \* longest exclude list
MaxItemLen == 2     \* longest exclude pattern, in characters

(* Defaults of robocopy_options *)
DefaultRetryCount == 3
DefaultWaitTime == 5
(* The exit status from which the tool's result is a failure *)
FailureThreshold == 8

----------------------------------------------------------------------------
(* String literals of the source, as character sequences *)

robocopy == <<"r","o","b","o","c","o","p","y">>
full == <<"f","u","l","l">>
incremental == <<"i","n","c","r","e","m","e","n","t","a","l">>
MIR == <<"/","M","I","R">>
E == <<"/","E">>
Z == <<"/","Z">>
TS == <<"/","T","S">>
NP == <<"/","N","P">>
NDL == <<"/","N","D","L">>
NFL == <<"/","N","F","L">>
XD == <<"/","X","D">>
XF == <<"/","X","F">>

Digit == <<"0","1","2","3","4","5","6","7","8","9">>

(* str(n) for a non-negative int: its decimal digits *)
RECURSIVE Str(_)
Str(n) == IF n < 10 THEN <<Digit[n + 1]>>
          ELSE Str(n \div 10) \o <<Digit[(n % 10) + 1]>>

(* dict.get(key, default) *)
Get(d, key, default) == IF key \in DOMAIN d THEN d[key] ELSE default

(* the empty dict *)
EmptyDict == [k \in {} |-> None]

(* item.startswith(c) for a one-character c *)
StartsWith(item, c) == Len(item) > 0 /\ item[1] = c

(* c in item, for a one-character c *)
HasChar(item, c) == \E k \in 1..Len(item) : item[k] = c

----------------------------------------------------------------------------
(* build_robocopy_command *)

(* Mutant: only a leading '*' makes a file pattern *)
IsFilePattern_StarOnly(item) == StartsWith(item, "*")

(* the test of the exclusion loop *)
IsFilePattern(item) == StartsWith(item, "*") \/ HasChar(item, ".")

(* the exclusion loop: each item is appended to one of the two lists *)
RECURSIVE ExcludeLoop(_, _, _)
ExcludeLoop(exclude, excluded_dirs, excluded_files) ==
    IF exclude = <<>> THEN [dirs |-> excluded_dirs, files |-> excluded_files]
    ELSE LET item == Head(exclude) IN
         IF IsFilePattern(item)
         THEN ExcludeLoop(Tail(exclude), excluded_dirs, Append(excluded_files, item))
         ELSE ExcludeLoop(Tail(exclude), Append(excluded_dirs, item), excluded_files)

(* Mutant: an absent backup_type defaults to "incremental" *)
BackupTypeOf_DefaultIncremental(t) == Get(t, "backup_type", incremental)

(* task.get("backup_type", "full") *)
BackupTypeOf(t) == Get(t, "backup_type", full)

(* the flag appended for the backup type *)
TypeFlags(backup_type) ==
    IF backup_type = full THEN <<MIR>>
    ELSE IF backup_type = incremental THEN <<E>>
    ELSE <<>>

build_robocopy_command(t, options) ==
    LET source == Get(t, "source", None)
        destination == Get(t, "destination", None)
        backup_type == BackupTypeOf(t)
        exclude == Get(t, "exclude", <<>>)
        retry_count == Get(options, "retry_count", DefaultRetryCount)
        wait_time == Get(options, "wait_time", DefaultWaitTime)
        c0 == <<robocopy, source, destination>>
        c1 == c0 \o TypeFlags(backup_type)
        c2 == c1 \o <<Z, TS, NP, NDL, NFL>>
        c3 == Append(c2, <<"/","R",":">> \o Str(retry_count))
        c4 == Append(c3, <<"/","W",":">> \o Str(wait_time))
        ex == ExcludeLoop(exclude, <<>>, <<>>)
        c5 == IF ex.dirs # <<>> THEN (c4 \o <<XD>>) \o ex.dirs ELSE c4
        c6 == IF ex.files # <<>> THEN (c5 \o <<XF>>) \o ex.files ELSE c5
    IN  c6

----------------------------------------------------------------------------
(* Inputs *)

SeqsUpTo(S, n) == UNION {[1..k -> S] : k \in 0..n}

Chars == {"*", ".", "a"}
Items == SeqsUpTo(Chars, MaxItemLen)

(* the exclude list of the documented scenario:
   node_modules, *.tmp, bin, cache.db *)
ScenarioExclude ==
    << <<"n","o","d","e","_","m","o","d","u","l","e","s">>,
       <<"*",".","t","m","p">>,
       <<"b","i","n">>,
       <<"c","a","c","h","e",".","d","b">> >>

ExcludeLists == SeqsUpTo(Items, MaxExclude) \cup {ScenarioExclude}

differential == <<"d","i","f","f">>
BackupTypes == {full, incremental, differential, <<>>}

SrcPath == <<"/","s">>
DstPath == <<"/","d">>
Paths == {SrcPath, DstPath}

OptionSets == {EmptyDict,
               [retry_count |-> 0, wait_time |-> 10],
               [wait_time |-> 30]}

BuildTasks ==
    [source : {SrcPath}, destination : {DstPath},
     backup_type : BackupTypes, exclude : ExcludeLists]
    \cup [source : {SrcPath}, destination : {DstPath}, exclude : ExcludeLists]
    \cup [source : {SrcPath}, destination : {DstPath}, backup_type : BackupTypes]

----------------------------------------------------------------------------
(* The command builder on its own: Init draws the inputs, one action calls it *)

Idle ==
    /\ config = EmptyDict
    /\ fs = {}
    /\ tasks = <<>>
    /\ i = 0
    /\ failed_tasks = 0
    /\ return_code = Unset
    /\ success = Unset
    /\ exit_code = Unset
    /\ exc = None
    /\ running = <<>>
    /\ calls = <<>>
    /\ outcomes = <<>>
    /\ spawns = <<>>
    /\ source_seen = "unchecked"
    /\ dest_seen = "unchecked"
    /\ mkdir_result = None

InitBuild ==
    /\ Idle
    /\ pc = "build"
    /\ task \in BuildTasks
    /\ robocopy_options \in OptionSets
    /\ cmd = <<>>

BuildCommand ==
    /\ pc = "build"
    /\ cmd' = build_robocopy_command(task, robocopy_options)
    /\ pc' = "built"
    /\ UNCHANGED <<config, fs, tasks, robocopy_options, i, failed_tasks, task,
                   return_code, success, exit_code, exc, running, calls,
                   outcomes, spawns, source_seen, dest_seen, mkdir_result>>

NextBuild == BuildCommand

SpecBuild == InitBuild /\ [][NextBuild]_vars

----------------------------------------------------------------------------
(* Exceptions: the part of Python's class hierarchy the handlers decide on *)

Base(e) ==
    CASE e = "FileExistsError" -> "OSError"
      [] e = "PermissionError" -> "OSError"
      [] e = "FileNotFoundError" -> "OSError"
      [] e = "OSError" -> "Exception"
      [] e = "UnicodeDecodeError" -> "ValueError"
      [] e = "ValueError" -> "Exception"
      [] e = "Exception" -> "BaseException"
      [] OTHER -> "object"

RECURSIVE IsInstance(_, _)
IsInstance(e, cls) ==
    IF e = cls THEN TRUE
    ELSE IF e = "object" THEN FALSE
    ELSE IsInstance(Base(e), cls)

(* what os.makedirs raises when the leaf cannot be created *)
MakedirsErrors == {"PermissionError"}
(* what subprocess.run raises before a process exists: executable missing,
   access denied, an argument the OS refuses *)
LaunchErrors == {"FileNotFoundError", "PermissionError", "ValueError"}
(* what subprocess.run raises once the process runs: a fault while reading
   or decoding the captured output *)
CommunicateErrors == {"OSError", "UnicodeDecodeError"}

Statuses == 0..MaxStatus

----------------------------------------------------------------------------
(* run_all_backups and run_backup_task *)

RunOptionSets == {[retry_count |-> 1]}

RunTasks ==
    [source : Paths, destination : Paths]
    \cup [source : {SrcPath}, destination : {DstPath},
          backup_type : {incremental}, exclude : {<< <<"*",".","a">>, <<"a">> >>}]

TaskLists == SeqsUpTo(RunTasks, MaxTasks)

Configs ==
    {EmptyDict}
    \cup [robocopy_options : RunOptionSets]
    \cup [backup_tasks : TaskLists, robocopy_options : RunOptionSets]

Init ==
    /\ config \in Configs
    /\ fs \in SUBSET Paths
    /\ pc = "start"
    /\ tasks = <<>>
    /\ robocopy_options = EmptyDict
    /\ i = 0
    /\ failed_tasks = 0
    /\ task = EmptyDict
    /\ cmd = <<>>
    /\ return_code = Unset
    /\ success = Unset
    /\ exit_code = Unset
    /\ exc = None
    /\ running = <<>>
    /\ calls = <<>>
    /\ outcomes = <<>>
    /\ spawns = <<>>
    /\ source_seen = "unchecked"
    /\ dest_seen = "unchecked"
    /\ mkdir_result = None

(* the filesystem changes under the program: other processes create and
   remove directories at any time *)
EnvCreate(p) ==
    /\ p \notin fs
    /\ fs' = fs \cup {p}
    /\ UNCHANGED <<config, pc, tasks, robocopy_options, i, failed_tasks, task,
                   cmd, return_code, success, exit_code, exc, running, calls,
                   outcomes, spawns, source_seen, dest_seen, mkdir_result>>

EnvRemove(p) ==
    /\ p \in fs
    /\ fs' = fs \ {p}
    /\ UNCHANGED <<config, pc, tasks, robocopy_options, i, failed_tasks, task,
                   cmd, return_code, success, exit_code, exc, running, calls,
                   outcomes, spawns, source_seen, dest_seen, mkdir_result>>

(* run_all_backups: the two config.get calls and failed_tasks = 0 *)
Start ==
    /\ pc = "start"
    /\ tasks' = Get(config, "backup_tasks", <<>>)
    /\ robocopy_options' = Get(config, "robocopy_options", EmptyDict)
    /\ failed_tasks' = 0
    /\ pc' = "loop"
    /\ UNCHANGED <<config, fs, i, task, cmd, return_code, success, exit_code,
                   exc, running, calls, outcomes, spawns, source_seen,
                   dest_seen, mkdir_result>>

(* for task in tasks: the next task is handed to run_backup_task *)
LoopNext ==
    /\ pc = "loop"
    /\ i < Len(tasks)
    /\ i' = i + 1
    /\ task' = tasks[i + 1]
    /\ calls' = Append(calls, i + 1)
    /\ cmd' = <<>>
    /\ return_code' = Unset
    /\ success' = Unset
    /\ exc' = None
    /\ source_seen' = "unchecked"
    /\ dest_seen' = "unchecked"
    /\ mkdir_result' = None
    /\ pc' = "check_source"
    /\ UNCHANGED <<config, fs, tasks, robocopy_options, failed_tasks,
                   exit_code, running, outcomes, spawns>>

(* the list is exhausted *)
LoopExit ==
    /\ pc = "loop"
    /\ i = Len(tasks)
    /\ pc' = "summary"
    /\ UNCHANGED <<config, fs, tasks, robocopy_options, i, failed_tasks, task,
                   cmd, return_code, success, exit_code, exc, running, calls,
                   outcomes, spawns, source_seen, dest_seen, mkdir_result>>

(* Mutant: the failure count is returned as the exit code *)
ExitCode_Count(failed) == failed

(* the value run_all_backups returns *)
ExitCode(failed) == IF failed = 0 THEN 0 ELSE 1

Summary ==
    /\ pc = "summary"
    /\ exit_code' = Val(ExitCode(failed_tasks))
    /\ pc' = "done"
    /\ UNCHANGED <<config, fs, tasks, robocopy_options, i, failed_tasks, task,
                   cmd, return_code, success, exc, running, calls,
                   outcomes, spawns, source_seen, dest_seen, mkdir_result>>

(* Mutant: the loop is left at the first failed task *)
AfterTask_BreakOnFailure(ok) == IF ok THEN "loop" ELSE "summary"

(* where run_all_backups goes after a call returned *)
AfterTask(ok) == "loop"

(* run_backup_task returned: if not success: failed_tasks += 1 *)
TaskReturns ==
    /\ pc = "return"
    /\ outcomes' = Append(outcomes, success[1])
    /\ failed_tasks' = IF ~success[1] THEN failed_tasks + 1 ELSE failed_tasks
    /\ pc' = AfterTask(success[1])
    /\ UNCHANGED <<config, fs, tasks, robocopy_options, i, task, cmd,
                   return_code, success, exit_code, exc, running, calls,
                   spawns, source_seen, dest_seen, mkdir_result>>

(* os.path.exists *)
Exists(path) == path \in fs

(* Mutant: the source check does not return *)
CheckSource_NoReturn ==
    /\ pc = "check_source"
    /\ source_seen' = IF Exists(task.source) THEN "exists" ELSE "missing"
    /\ pc' = "check_dest"
    /\ UNCHANGED <<config, fs, tasks, robocopy_options, i, failed_tasks, task,
                   cmd, return_code, success, exit_code, exc, running, calls,
                   outcomes, spawns, dest_seen, mkdir_result>>

(* if not os.path.exists(source): return False *)
CheckSource ==
    /\ pc = "check_source"
    /\ source_seen' = IF Exists(task.source) THEN "exists" ELSE "missing"
    /\ IF ~Exists(task.source)
       THEN success' = Val(FALSE) /\ pc' = "return"
       ELSE success' = success /\ pc' = "check_dest"
    /\ UNCHANGED <<config, fs, tasks, robocopy_options, i, failed_tasks, task,
                   cmd, return_code, exit_code, exc, running, calls,
                   outcomes, spawns, dest_seen, mkdir_result>>

(* if not os.path.exists(destination): *)
CheckDest ==
    /\ pc = "check_dest"
    /\ dest_seen' = IF Exists(task.destination) THEN "exists" ELSE "missing"
    /\ pc' = IF ~Exists(task.destination) THEN "makedirs" ELSE "spawn"
    /\ UNCHANGED <<config, fs, tasks, robocopy_options, i, failed_tasks, task,
                   cmd, return_code, success, exit_code, exc, running, calls,
                   outcomes, spawns, source_seen, mkdir_result>>

(* except OSError *)
CaughtAtMakedirs(e) == IsInstance(e, "OSError")

(* Mutant: the handler of os.makedirs logs and falls through *)
MakedirsFails_NoReturn(e) ==
    /\ mkdir_result' = e
    /\ success' = success
    /\ pc' = IF CaughtAtMakedirs(e) THEN "spawn" ELSE "raised"
    /\ fs' = fs

(* os.makedirs raised e *)
MakedirsFails(e) ==
    /\ mkdir_result' = e
    /\ IF CaughtAtMakedirs(e)
       THEN success' = Val(FALSE) /\ pc' = "return"
       ELSE success' = success /\ pc' = "raised"
    /\ fs' = fs

(* os.makedirs(destination): FileExistsError when the path exists by now,
   otherwise the directory is created or the OS refuses *)
Makedirs ==
    /\ pc = "makedirs"
    /\ IF Exists(task.destination)
       THEN MakedirsFails("FileExistsError")
       ELSE \/ /\ fs' = fs \cup {task.destination}
               /\ mkdir_result' = "created"
               /\ pc' = "spawn"
               /\ success' = success
            \/ \E e \in MakedirsErrors : MakedirsFails(e)
    /\ UNCHANGED <<config, tasks, robocopy_options, i, failed_tasks, task,
                   cmd, return_code, exit_code, exc, running, calls,
                   outcomes, spawns, source_seen, dest_seen>>

(* Mutant: except OSError instead of except Exception *)
CaughtAtRun_OSErrorOnly(e) == IsInstance(e, "OSError")

(* except Exception *)
CaughtAtRun(e) == IsInstance(e, "Exception")

(* subprocess.run raised e *)
RunFails(e) ==
    /\ exc' = e
    /\ IF CaughtAtRun(e)
       THEN success' = Val(FALSE) /\ pc' = "return"
       ELSE success' = success /\ pc' = "raised"

(* cmd = build_robocopy_command(...); subprocess.run(cmd, ...): the process
   is started, or the launch raises *)
Spawn ==
    /\ pc = "spawn"
    /\ cmd' = build_robocopy_command(task, robocopy_options)
    /\ \/ /\ running' = Append(running, cmd')
          /\ spawns' = Append(spawns, i)
          /\ pc' = "wait"
          /\ UNCHANGED <<exc, success>>
       \/ /\ \E e \in LaunchErrors : RunFails(e)
          /\ UNCHANGED <<running, spawns>>
    /\ UNCHANGED <<config, fs, tasks, robocopy_options, i, failed_tasks, task,
                   return_code, exit_code, calls, outcomes, source_seen,
                   dest_seen, mkdir_result>>

(* the process ends with status s and subprocess.run returns:
   return_code = result.returncode *)
ProcessExits(s) ==
    /\ pc = "wait"
    /\ running' = <<>>
    /\ return_code' = Val(s)
    /\ pc' = "classify"
    /\ UNCHANGED <<config, fs, tasks, robocopy_options, i, failed_tasks, task,
                   cmd, success, exit_code, exc, calls, outcomes, spawns,
                   source_seen, dest_seen, mkdir_result>>

(* subprocess.run raises while the process runs: it kills the process,
   waits for it and re-raises *)
CommunicateFails(e) ==
    /\ pc = "wait"
    /\ running' = <<>>
    /\ RunFails(e)
    /\ UNCHANGED <<config, fs, tasks, robocopy_options, i, failed_tasks, task,
                   cmd, return_code, exit_code, calls, outcomes, spawns,
                   source_seen, dest_seen, mkdir_result>>

(* Mutant: the threshold is exclusive *)
IsFailure_Exclusive(rc) == rc > FailureThreshold

(* if return_code >= 8 *)
IsFailure(rc) == rc >= FailureThreshold

(* Mutant: a failure status launches the tool again *)
Classify_Retry ==
    /\ pc = "classify"
    /\ IF IsFailure(return_code[1])
       THEN success' = success /\ pc' = "spawn"
       ELSE success' = Val(TRUE) /\ pc' = "return"
    /\ UNCHANGED <<config, fs, tasks, robocopy_options, i, failed_tasks, task,
                   cmd, return_code, exit_code, exc, running, calls, outcomes,
                   spawns, source_seen, dest_seen, mkdir_result>>

(* return False when return_code >= 8, True otherwise *)
Classify ==
    /\ pc = "classify"
    /\ success' = Val(~IsFailure(return_code[1]))
    /\ pc' = "return"
    /\ UNCHANGED <<config, fs, tasks, robocopy_options, i, failed_tasks, task,
                   cmd, return_code, exit_code, exc, running, calls, outcomes,
                   spawns, source_seen, dest_seen, mkdir_result>>

(* the steps of the program *)
Step ==
    \/ Start
    \/ LoopNext
    \/ LoopExit
    \/ Summary
    \/ TaskReturns
    \/ CheckSource
    \/ CheckDest
    \/ Makedirs
    \/ Spawn
    \/ Classify

(* the steps of the external tool, as subprocess.run reports them *)
Tool ==
    \/ \E s \in Statuses : ProcessExits(s)
    \/ \E e \in CommunicateErrors : CommunicateFails(e)

(* the steps of other processes on the filesystem *)
Env ==
    \/ \E p \in Paths : EnvCreate(p)
    \/ \E p \in Paths : EnvRemove(p)

Next == Step \/ Tool \/ Env

Spec == Init /\ [][Next]_vars

(* the interpreter runs the program on, and the external tool terminates *)
FairSpec == Spec /\ WF_vars(Step) /\ WF_vars(Tool)

----------------------------------------------------------------------------
(* Properties *)

Elems(q) == {q[k] : k \in DOMAIN q}
UpTo(n) == [k \in 1..n |-> k]

(* C1: run_all_backups returns 0 if and only if every run_backup_task call
   returned success, and 1 otherwise; it returns nothing but 0 or 1; a
   call was made for every task of the list (none when the list is empty
   or the backup_tasks key is absent). *)
C1_ExitCode ==
    pc = "done" =>
      /\ exit_code \in {Val(0), Val(1)}
      /\ Len(outcomes) = (IF "backup_tasks" \in DOMAIN config
                          THEN Len(config.backup_tasks) ELSE 0)
      /\ (exit_code = Val(0) <=> \A k \in DOMAIN outcomes : outcomes[k] = TRUE)
      /\ (exit_code = Val(1) <=> \E k \in DOMAIN outcomes : outcomes[k] = FALSE)

C1_Witness ==
    /\ pc = "done"
    /\ exit_code = Val(1)
    /\ Cardinality({k \in DOMAIN outcomes : outcomes[k] = FALSE}) = 2

C1_WitnessAbsentKey ==
    /\ pc = "done"
    /\ "backup_tasks" \notin DOMAIN config
    /\ exit_code = Val(0)

(* C2: when the source path does not exist at the time of the check, no
   external process is started for that task and the call returns
   failure. *)
C2_MissingSourceNoSpawn ==
    source_seen = "missing" =>
      /\ i \notin Elems(spawns)
      /\ running = <<>>
      /\ pc \in {"return", "loop", "summary", "done"}
      /\ success = Val(FALSE)

C2_Witness ==
    /\ pc = "return"
    /\ source_seen = "missing"
    /\ task.source \notin fs
    /\ success = Val(FALSE)

(* C3: a call in which the external tool returned exit status s returns
   success when s is in 0..7 and failure when s >= 8; 7 succeeds, 8
   fails. *)
C3_StatusThreshold ==
    (pc = "return" /\ return_code # Unset) =>
      /\ (return_code[1] \in 0..7 => success = Val(TRUE))
      /\ (return_code[1] >= 8 => success = Val(FALSE))
      /\ (return_code[1] = 7 => success = Val(TRUE))
      /\ (return_code[1] = 8 => success = Val(FALSE))

C3_Witness ==
    /\ pc = "return"
    /\ return_code = Val(8)
    /\ success = Val(FALSE)
    /\ Len(outcomes) >= 1
    /\ outcomes[Len(outcomes)] = TRUE

(* C4: every task of the list is handed to run_backup_task exactly once, in
   list order, whatever the outcome of the earlier tasks, and the run
   eventually reaches the summary and returns. *)
C4_EveryTaskRunsInOrder ==
    /\ [](calls = UpTo(i) /\ i <= Len(tasks))
    /\ [](pc \in {"summary", "done"} =>
            calls = UpTo(Len(tasks)) /\ Len(outcomes) = Len(tasks))
    /\ [](pc # "start" /\ "backup_tasks" \in DOMAIN config =>
            tasks = config.backup_tasks)
    /\ <>(pc = "done")

C4_Witness ==
    /\ pc = "done"
    /\ Len(tasks) = 2
    /\ outcomes[1] = FALSE
    /\ calls = <<1, 2>>

(* C5: run_backup_task never propagates an exception to its caller: an
   error raised by launching or running the external tool is caught and
   the call returns failure; the caller only sees a boolean. *)
C5_NoExceptionEscapes ==
    /\ pc # "raised"
    /\ (pc = "return" => success \in {Val(TRUE), Val(FALSE)})
    /\ (pc = "return" /\ exc # None => success = Val(FALSE))
    /\ \A k \in DOMAIN outcomes : outcomes[k] \in BOOLEAN

C5_Witness ==
    /\ pc = "return"
    /\ exc = "ValueError"
    /\ success = Val(FALSE)

(* C6: when the source exists, the destination does not and creating it
   fails, the call returns failure and no external process is started for
   that task; a process is only started after the source check passed and
   the destination existed or was created. *)
C6_NoSpawnAfterFailedMakedirs ==
    /\ (source_seen = "exists" /\ dest_seen = "missing"
        /\ mkdir_result \notin {None, "created"}) =>
          /\ i \notin Elems(spawns)
          /\ running = <<>>
          /\ pc \in {"return", "loop", "summary", "done"}
          /\ success = Val(FALSE)
    /\ (i \in Elems(spawns) \/ pc \in {"spawn", "wait", "classify"}) =>
          /\ source_seen = "exists"
          /\ dest_seen = "exists" \/ mkdir_result = "created"

C6_Witness ==
    /\ pc = "return"
    /\ source_seen = "exists"
    /\ dest_seen = "missing"
    /\ mkdir_result = "PermissionError"
    /\ task.destination \notin fs
    /\ success = Val(FALSE)

(* C9: when another creator makes the destination directory between the
   existence check and os.makedirs, the "already exists" outcome is treated
   as success: the call is not failed for that reason. *)
C9_AlreadyExistsIsSuccess ==
    ~(/\ dest_seen = "missing"
      /\ mkdir_result = "FileExistsError"
      /\ pc = "return"
      /\ success = Val(FALSE)
      /\ i \notin Elems(spawns))

(* C10: the external tool is started at most once per task, at most one
   external process is in flight at any moment, and the process of a task is
   started only after the processes of the earlier tasks have ended and
   their calls have returned. *)
C10_OneSpawnPerTaskOneAtATime ==
    /\ \A a, b \in DOMAIN spawns : a < b => spawns[a] < spawns[b]
    /\ \A a \in DOMAIN spawns : spawns[a] \in 1..i
    /\ Len(running) <= 1
    /\ running # <<>> =>
          /\ pc = "wait"
          /\ spawns # <<>>
          /\ spawns[Len(spawns)] = i
          /\ Len(outcomes) = i - 1
    /\ \A a \in DOMAIN spawns : spawns[a] < i => spawns[a] <= Len(outcomes)

C10_Witness ==
    /\ pc = "wait"
    /\ Len(running) = 1
    /\ spawns = <<1, 2>>
    /\ outcomes = <<FALSE>>

(* C7: for every exclude list, an item that starts with '*' or contains '.'
   is in the file bucket and every other item in the directory bucket, each
   bucket in input order; the command ends with '/XD' and the directory
   bucket iff that bucket is non-empty, then '/XF' and the file bucket iff
   that bucket is non-empty; the documented scenario gives
   /XD node_modules bin /XF *.tmp cache.db. *)
LooksLikeFile(item) ==
    (item # <<>> /\ Head(item) = "*") \/ "." \in {item[k] : k \in DOMAIN item}
Occurs(c, x) == \E k \in 1..Len(c) : c[k] = x
LastN(c, n) == SubSeq(c, Len(c) - n + 1, Len(c))
C7_ExcludeBuckets ==
    pc = "built" =>
      LET exclude == IF "exclude" \in DOMAIN task THEN task.exclude ELSE <<>>
          dirs == SelectSeq(exclude, LAMBDA x : ~LooksLikeFile(x))
          files == SelectSeq(exclude, LAMBDA x : LooksLikeFile(x))
          xd == IF dirs = <<>> THEN <<>> ELSE <<XD>> \o dirs
          xf == IF files = <<>> THEN <<>> ELSE <<XF>> \o files
      IN  /\ (Occurs(cmd, XD) <=> dirs # <<>>)
          /\ (Occurs(cmd, XF) <=> files # <<>>)
          /\ Len(cmd) >= Len(xd) + Len(xf)
          /\ LastN(cmd, Len(xd) + Len(xf)) = xd \o xf
          /\ (exclude = ScenarioExclude =>
                LastN(cmd, 6) = <<XD, ScenarioExclude[1], ScenarioExclude[3],
                                  XF, ScenarioExclude[2], ScenarioExclude[4]>>)

C7_Witness ==
    /\ pc = "built"
    /\ "exclude" \in DOMAIN task
    /\ task.exclude = ScenarioExclude
    /\ Occurs(cmd, XD)
    /\ Occurs(cmd, XF)

(* C8: the built command contains '/MIR' iff backup_type is "full" or
   absent, and '/E' iff backup_type is "incremental"; never both, and
   neither for any other value. *)
C8_ModeFlag ==
    pc = "built" =>
      LET absent == "backup_type" \notin DOMAIN task
          isFull == absent \/ task.backup_type = full
          isIncr == ~absent /\ task.backup_type = incremental
      IN  /\ (Occurs(cmd, MIR) <=> isFull)
          /\ (Occurs(cmd, E) <=> isIncr)
          /\ ~(Occurs(cmd, MIR) /\ Occurs(cmd, E))
          /\ (~isFull /\ ~isIncr => ~Occurs(cmd, MIR) /\ ~Occurs(cmd, E))

C8_Witness ==
    /\ pc = "built"
    /\ "backup_type" \notin DOMAIN task
    /\ Occurs(cmd, MIR)
    /\ ~Occurs(cmd, E)

====
